---- MODULE Spec2Model ----
(***************************************************************************)
(* A model of Chip8CPU (src/chatgptpj64.py): the CHIP-8 machine state, the *)
(* fetch/decode/execute cycle, the timer tick and the key events, and of    *)
(* the two threads of Chip8Emulator that call them: the thread of          *)
(* Chip8Emulator.loop and the Tk thread that delivers the key events.      *)
(*                                                                         *)
(* Python lists are modelled with their indexing rules: memory is a        *)
(* sequence whose cell a is memory[a+1] and whose length can change (a     *)
(* slice assignment past the end grows it); a list index outside the list  *)
(* raises IndexError, except that a negative index -len..-1 counts from    *)
(* the end.  A raised IndexError ends the call where it is raised: the     *)
(* assignments made before it stay, the ones after it do not happen.       *)
(***************************************************************************)
EXTENDS Integers, Sequences, FiniteSets, TLC

\* ------------------------------------------------------------------------
\* Program constants
\* ------------------------------------------------------------------------

FONTSET ==
  << 240, 144, 144, 144, 240,
      32,  96,  32,  32, 112,
     240,  16, 240, 128, 240,
     240,  16, 240,  16, 240,
     144, 144, 240,  16,  16,
     240, 128, 240,  16, 240,
     240, 128, 240, 144, 240,
     240,  16,  32,  64,  64,
     240, 144, 240, 144, 240,
     240, 144, 240,  16, 240,
     240, 144, 240, 144, 144,
     224, 144, 224, 144, 224,
     240, 128, 128, 128, 240,
     224, 144, 144, 144, 224,
     240, 128, 240, 128, 240,
     240, 128, 240, 128, 128 >>

MemSize == 4096
NumRegs == 16
StackSize == 16
NumKeys == 16
DisplayWidth == 64
DisplayHeight == 32
StartPC == 512
MaxRomLen == 3584
max_pc == 4094
shift_quirk == TRUE
increment_i == TRUE
cycles_per_frame == 10

\* ------------------------------------------------------------------------
\* Bounds of the model
\* ------------------------------------------------------------------------

\* The host presses and releases the keys 0..MaxKey.
MaxKey == 1
\* random.randint(0,255) is drawn from the multiples of 255 \div MaxRand.
MaxRand == 1

Regs == 0 .. (NumRegs - 1)
KeyIds == 0 .. (NumKeys - 1)
HostKeys == 0 .. MaxKey
RandBytes == { (255 * i) \div MaxRand : i \in 0 .. MaxRand }

\* ------------------------------------------------------------------------
\* Integer helpers: Python's &, |, ^, >> and << on non-negative integers
\* ------------------------------------------------------------------------

Min(a, b) == IF a <= b THEN a ELSE b

RECURSIVE Pow2(_)
Pow2(i) == IF i = 0 THEN 1 ELSE 2 * Pow2(i - 1)

Bit(v, i) == (v \div Pow2(i)) % 2

RECURSIVE BitAnd(_, _)
BitAnd(a, b) ==
  IF a = 0 \/ b = 0 THEN 0
  ELSE (a % 2) * (b % 2) + 2 * BitAnd(a \div 2, b \div 2)

RECURSIVE BitOr(_, _)
BitOr(a, b) ==
  IF a = 0 THEN b
  ELSE IF b = 0 THEN a
  ELSE (IF a % 2 = 1 \/ b % 2 = 1 THEN 1 ELSE 0) + 2 * BitOr(a \div 2, b \div 2)

RECURSIVE BitXor(_, _)
BitXor(a, b) ==
  IF a = 0 THEN b
  ELSE IF b = 0 THEN a
  ELSE ((a + b) % 2) + 2 * BitXor(a \div 2, b \div 2)

\* Mutant of Mask8: the value is not masked.
Mask8None(v) == v

\* v & 0xFF for any Python int (two's complement for a negative v).
Mask8(v) == v % 256

\* ------------------------------------------------------------------------
\* State
\* ------------------------------------------------------------------------

VARIABLES
  memory, V, I, PC, SP, stack, delay_timer, sound_timer, display, keys,
  draw_flag, sound_flag, waiting_for_key, key_register,
  fault, last, calls, draw_before, ticked,
  running, frame, loop_at, host

\* The fields of Chip8CPU.
cpu == << memory, V, I, PC, SP, stack, delay_timer, sound_timer, display, keys,
          draw_flag, sound_flag, waiting_for_key, key_register >>

\* History of the run, not read by the program:
\*   fault        a cycle() call raised IndexError, which ended the thread of
\*                Chip8Emulator.loop, the only caller of cycle and update_timers
\*   last         the call made last: its name, its argument, its outcome
\*   calls        the 2NNN calls not yet returned from: << address, SP before >>
\*   draw_before  the framebuffer before the last DXYN
\*   ticked       << d, n >>: FX15 last set the delay timer to d and n calls of
\*                update_timers were made since, counted up to d (<< 0, 0 >>
\*                after reset)
hist == << fault, last, calls, draw_before, ticked >>

\* Chip8Emulator and its two threads:
\*   running      Chip8Emulator.running
\*   frame        the cycle() calls made so far by the for loop of the current
\*                iteration of Chip8Emulator.loop
\*   loop_at      where the loop thread stands: "cycle" (between two calls),
\*                or inside execute() of FX0A, before the assignment of
\*                "key_register" or before the one of "PC"
\*   host         where the Tk thread stands inside key_press(k): "idle"
\*                (outside), before the "if", before the "store" into V, or
\*                before the "clear" of waiting_for_key; and k
emu == << running, frame, loop_at, host >>

vars == << memory, V, I, PC, SP, stack, delay_timer, sound_timer, display, keys,
           draw_flag, sound_flag, waiting_for_key, key_register,
           fault, last, calls, draw_before, ticked,
           running, frame, loop_at, host >>

\* The machine as one record, as execute() sees self.
Cur ==
  [ memory |-> memory, V |-> V, I |-> I, PC |-> PC, SP |-> SP, stack |-> stack,
    delay_timer |-> delay_timer, sound_timer |-> sound_timer,
    display |-> display, keys |-> keys, draw_flag |-> draw_flag,
    sound_flag |-> sound_flag, waiting_for_key |-> waiting_for_key,
    key_register |-> key_register, fault |-> FALSE ]

\* The machine is in state s (used by Init).
Holds(s) ==
  /\ memory = s.memory
  /\ V = s.V
  /\ I = s.I
  /\ PC = s.PC
  /\ SP = s.SP
  /\ stack = s.stack
  /\ delay_timer = s.delay_timer
  /\ sound_timer = s.sound_timer
  /\ display = s.display
  /\ keys = s.keys
  /\ draw_flag = s.draw_flag
  /\ sound_flag = s.sound_flag
  /\ waiting_for_key = s.waiting_for_key
  /\ key_register = s.key_register

\* The machine moves to state s.
Install(s) ==
  /\ memory' = s.memory
  /\ V' = s.V
  /\ I' = s.I
  /\ PC' = s.PC
  /\ SP' = s.SP
  /\ stack' = s.stack
  /\ delay_timer' = s.delay_timer
  /\ sound_timer' = s.sound_timer
  /\ display' = s.display
  /\ keys' = s.keys
  /\ draw_flag' = s.draw_flag
  /\ sound_flag' = s.sound_flag
  /\ waiting_for_key' = s.waiting_for_key
  /\ key_register' = s.key_register

\* ------------------------------------------------------------------------
\* reset and load_rom
\* ------------------------------------------------------------------------

BlankDisplay == [r \in 0 .. (DisplayHeight - 1) |-> [c \in 0 .. (DisplayWidth - 1) |-> 0]]

\* Cell a (from 0) of the memory reset() builds: the font, then zeros.
ResetCell(a) == IF a < Len(FONTSET) THEN FONTSET[a + 1] ELSE 0

ResetMemory == [a \in 1 .. MemSize |-> ResetCell(a - 1)]

ResetState ==
  [ memory |-> ResetMemory, V |-> [r \in Regs |-> 0], I |-> 0, PC |-> StartPC,
    SP |-> 0, stack |-> [i \in 0 .. (StackSize - 1) |-> 0],
    delay_timer |-> 0, sound_timer |-> 0,
    display |-> BlankDisplay, keys |-> [k \in KeyIds |-> 0], draw_flag |-> FALSE,
    sound_flag |-> FALSE, waiting_for_key |-> FALSE,
    key_register |-> 0, fault |-> FALSE ]

\* Mutant of RomTooLarge: the size check is off by one.
RomTooLargeOffByOne(data) == Len(data) > MaxRomLen + 1

RomTooLarge(data) == Len(data) > MaxRomLen

\* Mutant of LoadedMemory: the copy loop stops one byte early.
LoadedMemoryShort(data) ==
  SubSeq(ResetMemory, 1, StartPC) \o SubSeq(data, 1, Len(data) - 1)
    \o SubSeq(ResetMemory, StartPC + Len(data), MemSize)

\* memory after reset() and the copy loop of load_rom: the cells below 0x200 as
\* reset() left them, byte i of the ROM in cell 0x200 + i, the rest as reset()
\* left them.
LoadedMemory(data) ==
  SubSeq(ResetMemory, 1, StartPC) \o data
    \o SubSeq(ResetMemory, StartPC + Len(data) + 1, MemSize)

LoadedState(data) == [ResetState EXCEPT !.memory = LoadedMemory(data)]

\* ------------------------------------------------------------------------
\* Python list indexing
\* ------------------------------------------------------------------------

\* memory[a] is inside the list (a is never negative: I, PC and row are not).
MemOK(s, a) == a >= 0 /\ a < Len(s.memory)
Mem(s, a) == s.memory[a + 1]

\* stack[i]: i in -16..15 is inside the list, a negative i counts from the end.
StackOK(i) == i >= -StackSize /\ i < StackSize
StackIdx(i) == i % StackSize

\* keys[i] with i = V[x] >= 0.
KeyOK(i) == i >= 0 /\ i < NumKeys

\* memory[a:a+3] = digits: the slice is clipped to the list, so the list grows
\* when fewer than three cells lie at a..a+2.
SliceAssign3(mem, a, digits) ==
  LET n == Len(mem)
      lo == Min(a, n)
      hi == Min(a + 3, n)
  IN SubSeq(mem, 1, lo) \o digits \o SubSeq(mem, hi + 1, n)

\* ------------------------------------------------------------------------
\* cycle: the opcode fields
\* ------------------------------------------------------------------------

Fetch(s) == BitOr(Mem(s, s.PC) * 256, Mem(s, s.PC + 1))

NNN(opcode) == BitAnd(opcode, 4095)
NN(opcode) == BitAnd(opcode, 255)
N(opcode) == BitAnd(opcode, 15)
X(opcode) == BitAnd(opcode \div 256, 15)
Y(opcode) == BitAnd(opcode \div 16, 15)
Op(opcode) == opcode \div 4096

Skip(cond) == IF cond THEN 4 ELSE 2

\* ------------------------------------------------------------------------
\* execute: 00E0, 00EE, 1NNN, 2NNN
\* ------------------------------------------------------------------------

Exec00E0(s) ==
  [s EXCEPT !.display = BlankDisplay, !.draw_flag = TRUE, !.PC = s.PC + 2]

\* self.SP -= 1, then self.PC = self.stack[self.SP] + 2
Exec00EE(s) ==
  LET sp == s.SP - 1
  IN IF StackOK(sp)
     THEN [s EXCEPT !.SP = sp, !.PC = s.stack[StackIdx(sp)] + 2]
     ELSE [s EXCEPT !.SP = sp, !.fault = TRUE]

Exec1NNN(s, nnn) == [s EXCEPT !.PC = nnn]

\* self.stack[self.SP] = self.PC, then SP += 1, then PC = nnn
Exec2NNN(s, nnn) ==
  IF StackOK(s.SP)
  THEN [s EXCEPT !.stack[StackIdx(s.SP)] = s.PC, !.SP = s.SP + 1, !.PC = nnn]
  ELSE [s EXCEPT !.fault = TRUE]

\* ------------------------------------------------------------------------
\* execute: 8XYN
\* ------------------------------------------------------------------------

\* Mutant of AddCarry: the carry test is off by one.
AddCarryOffByOne(sum) == IF sum >= 255 THEN 1 ELSE 0

AddCarry(sum) == IF sum > 255 THEN 1 ELSE 0

\* s = V[x] + V[y]; V[x] = s & 0xFF; V[0xF] = carry
Alu4(v, x, y) ==
  LET sum == v[x] + v[y]
      v1 == [v EXCEPT ![x] = Mask8(sum)]
  IN [v1 EXCEPT ![15] = AddCarry(sum)]

\* V[0xF] = 1 if V[x] >= V[y] else 0; V[x] = (V[x] - V[y]) & 0xFF
Alu5(v, x, y) ==
  LET v1 == [v EXCEPT ![15] = IF v[x] >= v[y] THEN 1 ELSE 0]
  IN [v1 EXCEPT ![x] = Mask8(v1[x] - v1[y])]

\* V[0xF] = 1 if V[y] >= V[x] else 0; V[x] = (V[y] - V[x]) & 0xFF
Alu7(v, x, y) ==
  LET v1 == [v EXCEPT ![15] = IF v[y] >= v[x] THEN 1 ELSE 0]
  IN [v1 EXCEPT ![x] = Mask8(v1[y] - v1[x])]

\* val = V[y] if shift_quirk else V[x]; V[0xF] = val & 1; V[x] = val >> 1
Alu6(v, x, y) ==
  LET val == IF shift_quirk THEN v[y] ELSE v[x]
      v1 == [v EXCEPT ![15] = BitAnd(val, 1)]
  IN [v1 EXCEPT ![x] = val \div 2]

\* V[0xF] = (val >> 7) & 1; V[x] = (val << 1) & 0xFF
AluE(v, x, y) ==
  LET val == IF shift_quirk THEN v[y] ELSE v[x]
      v1 == [v EXCEPT ![15] = BitAnd(val \div 128, 1)]
  IN [v1 EXCEPT ![x] = Mask8(val * 2)]

Alu0(v, x, y) == [v EXCEPT ![x] = v[y]]

\* V[x] |= V[y]; V[0xF] = 0   (likewise &= and ^=)
Alu1(v, x, y) ==
  LET v1 == [v EXCEPT ![x] = BitOr(v[x], v[y])] IN [v1 EXCEPT ![15] = 0]

Alu2(v, x, y) ==
  LET v1 == [v EXCEPT ![x] = BitAnd(v[x], v[y])] IN [v1 EXCEPT ![15] = 0]

Alu3(v, x, y) ==
  LET v1 == [v EXCEPT ![x] = BitXor(v[x], v[y])] IN [v1 EXCEPT ![15] = 0]

Exec8XYN(s, x, y, n) ==
  LET v == s.V
      v2 == CASE n = 6 -> Alu6(v, x, y)
              [] n = 14 -> AluE(v, x, y)
              [] n = 4 -> Alu4(v, x, y)
              [] n = 5 -> Alu5(v, x, y)
              [] n = 7 -> Alu7(v, x, y)
              [] n = 0 -> Alu0(v, x, y)
              [] n = 1 -> Alu1(v, x, y)
              [] n = 2 -> Alu2(v, x, y)
              [] n = 3 -> Alu3(v, x, y)
              [] OTHER -> v
  IN [s EXCEPT !.V = v2, !.PC = s.PC + 2]

\* ------------------------------------------------------------------------
\* execute: DXYN
\* ------------------------------------------------------------------------

\* One pass of the inner loop body, for the pixel (row, col) of a sprite byte:
\* V[x] and V[y] are read here, after what earlier pixels did to V[0xF].
DrawPixel(s, x, y, row, col, sprite) ==
  IF BitAnd(sprite, 128 \div Pow2(col)) # 0
  THEN LET px == (s.V[x] + col) % DisplayWidth
           py == (s.V[y] + row) % DisplayHeight
           v1 == IF s.display[py][px] # 0 THEN [s.V EXCEPT ![15] = 1] ELSE s.V
       IN [s EXCEPT !.V = v1, !.display[py][px] = BitXor(s.display[py][px], 1)]
  ELSE s

RECURSIVE DrawCols(_, _, _, _, _, _)
DrawCols(s, x, y, row, col, sprite) ==
  IF col >= 8 THEN s
  ELSE DrawCols(DrawPixel(s, x, y, row, col, sprite), x, y, row, col + 1, sprite)

\* for row in range(n): sprite = memory[I + row] raises past the end of memory,
\* with the rows before it drawn.
RECURSIVE DrawRows(_, _, _, _, _)
DrawRows(s, x, y, n, row) ==
  IF row >= n THEN s
  ELSE IF ~MemOK(s, s.I + row) THEN [s EXCEPT !.fault = TRUE]
  ELSE DrawRows(DrawCols(s, x, y, row, 0, Mem(s, s.I + row)), x, y, n, row + 1)

ExecDXYN(s, x, y, n) ==
  LET s0 == [s EXCEPT !.V[15] = 0]
      s1 == DrawRows(s0, x, y, n, 0)
  IN IF s1.fault THEN s1
     ELSE [s1 EXCEPT !.draw_flag = TRUE, !.PC = s1.PC + 2]

\* ------------------------------------------------------------------------
\* execute: EX9E, EXA1
\* ------------------------------------------------------------------------

ExecEXNN(s, x, nn) ==
  IF nn = 158
  THEN IF KeyOK(s.V[x])
       THEN [s EXCEPT !.PC = s.PC + Skip(s.keys[s.V[x]] # 0)]
       ELSE [s EXCEPT !.fault = TRUE]
  ELSE IF nn = 161
  THEN IF KeyOK(s.V[x])
       THEN [s EXCEPT !.PC = s.PC + Skip(s.keys[s.V[x]] = 0)]
       ELSE [s EXCEPT !.fault = TRUE]
  ELSE s

\* ------------------------------------------------------------------------
\* execute: FXNN
\* ------------------------------------------------------------------------

Bcd(v) == << v \div 100, (v \div 10) % 10, v % 10 >>

\* for i in range(x+1): memory[I+i] = V[i]; the cells that exist are written
\* before the first one that does not raises.
DumpMemory(s, x) ==
  [a \in 1 .. Len(s.memory) |->
     IF a - 1 >= s.I /\ a - 1 <= s.I + x THEN s.V[a - 1 - s.I] ELSE s.memory[a]]

\* for i in range(x+1): V[i] = memory[I+i]
LoadRegs(s, x) ==
  [r \in Regs |->
     IF r <= x /\ MemOK(s, s.I + r) THEN Mem(s, s.I + r) ELSE s.V[r]]

IncI(s, x) == IF increment_i THEN s.I + x + 1 ELSE s.I

ExecFXNN(s, x, nn) ==
  LET s1 ==
        CASE nn = 7 -> [s EXCEPT !.V[x] = s.delay_timer]
          [] nn = 10 -> [s EXCEPT !.waiting_for_key = TRUE, !.key_register = x]
          [] nn = 21 -> [s EXCEPT !.delay_timer = s.V[x]]
          [] nn = 24 -> [s EXCEPT !.sound_timer = s.V[x]]
          [] nn = 30 -> [s EXCEPT !.I = s.I + s.V[x]]
          [] nn = 41 -> [s EXCEPT !.I = BitAnd(s.V[x], 15) * 5]
          [] nn = 51 -> [s EXCEPT !.memory = SliceAssign3(s.memory, s.I, Bcd(s.V[x]))]
          [] nn = 85 ->
               IF MemOK(s, s.I + x)
               THEN [s EXCEPT !.memory = DumpMemory(s, x), !.I = IncI(s, x)]
               ELSE [s EXCEPT !.memory = DumpMemory(s, x), !.fault = TRUE]
          [] nn = 101 ->
               IF MemOK(s, s.I + x)
               THEN [s EXCEPT !.V = LoadRegs(s, x), !.I = IncI(s, x)]
               ELSE [s EXCEPT !.V = LoadRegs(s, x), !.fault = TRUE]
          [] OTHER -> s
  IN IF s1.fault THEN s1 ELSE [s1 EXCEPT !.PC = s1.PC + 2]

\* ------------------------------------------------------------------------
\* execute: the dispatch.  rnd is the byte random.randint(0,255) returns.
\* ------------------------------------------------------------------------

Execute(s, opcode, rnd) ==
  LET nnn == NNN(opcode)
      nn == NN(opcode)
      n == N(opcode)
      x == X(opcode)
      y == Y(opcode)
      op == Op(opcode)
  IN CASE opcode = 224 -> Exec00E0(s)
       [] opcode = 238 -> Exec00EE(s)
       [] op = 1 -> Exec1NNN(s, nnn)
       [] op = 2 -> Exec2NNN(s, nnn)
       [] op = 3 -> [s EXCEPT !.PC = s.PC + Skip(s.V[x] = nn)]
       [] op = 4 -> [s EXCEPT !.PC = s.PC + Skip(s.V[x] # nn)]
       [] op = 5 /\ n = 0 -> [s EXCEPT !.PC = s.PC + Skip(s.V[x] = s.V[y])]
       [] op = 6 -> [s EXCEPT !.V[x] = nn, !.PC = s.PC + 2]
       [] op = 7 -> [s EXCEPT !.V[x] = Mask8(s.V[x] + nn), !.PC = s.PC + 2]
       [] op = 8 -> Exec8XYN(s, x, y, n)
       [] op = 9 /\ n = 0 -> [s EXCEPT !.PC = s.PC + Skip(s.V[x] # s.V[y])]
       [] op = 10 -> [s EXCEPT !.I = nnn, !.PC = s.PC + 2]
       [] op = 11 -> [s EXCEPT !.PC = nnn + s.V[0]]
       [] op = 12 -> [s EXCEPT !.V[x] = BitAnd(rnd, nn), !.PC = s.PC + 2]
       [] op = 13 -> ExecDXYN(s, x, y, n)
       [] op = 14 -> ExecEXNN(s, x, nn)
       [] op = 15 -> ExecFXNN(s, x, nn)
       [] OTHER -> s

\* ------------------------------------------------------------------------
\* ROM images handed to load_rom
\* ------------------------------------------------------------------------

\* 6307 F30A 7301 1206: V3 = 7, wait for a key into V3, V3 += 1, loop.
RomKeyWait == << 99, 7, 243, 10, 115, 1, 18, 6 >>

\* 1000: jump below the program area.
RomJumpLow == << 16, 0 >>

\* 00EE: return on the empty stack.
RomReturn == << 0, 238 >>

\* 60FF BFFF: V0 = 255, jump to 0xFFF + V0.
RomJumpOffset == << 96, 255, 191, 255 >>

\* 0x200 6010       V0 = 16
\* 0x202 2208       call F
\* 0x204 6101       V1 = 1
\* 0x206 00EE       return on the empty stack
\* 0x208 70FF    F: V0 -= 1
\* 0x20A 3000       skip if V0 = 0
\* 0x20C 2208       call F
\* 0x20E 4101       skip if V1 # 1
\* 0x210 1214       jump to G
\* 0x212 00EE       return
\* 0x214 6102    G: V1 = 2
\* 0x216 6011       V0 = 17
\* 0x218 2208       call F
\* 0x21A 121A       loop
RomStack ==
  << 96, 16, 34, 8, 97, 1, 0, 238, 112, 255, 48, 0, 34, 8, 65, 1, 18, 20,
     0, 238, 97, 2, 96, 17, 34, 8, 18, 26 >>

\* A ROM of the largest size: 1FFC at 0x200, F50A in cells 0xFFC and 0xFFD,
\* 6007 in the last two cells, 0xFFE and 0xFFF.
RomFull ==
  [i \in 1 .. MaxRomLen |->
     CASE i = 1 -> 31
       [] i = 2 -> 252
       [] i = MaxRomLen - 3 -> 245
       [] i = MaxRomLen - 2 -> 10
       [] i = MaxRomLen - 1 -> 96
       [] i = MaxRomLen -> 7
       [] OTHER -> 0]

\* C00F 1202: V0 = random byte & 0x0F, loop.
RomRandom == << 192, 15, 18, 2 >>

\* 6003 F015 6102 F118 F207 120A: delay timer = 3, sound timer = 2,
\* V2 = delay timer, loop.
RomTimers == << 96, 3, 240, 21, 97, 2, 241, 24, 242, 7, 18, 10 >>

\* 607B A000 F033 1206: V0 = 123, I = 0, the digits of V0 to the cells at I,
\* loop.
RomFontWrite == << 96, 123, 160, 0, 240, 51, 18, 6 >>

\* 1203: jump to the odd address 0x203.
RomJumpOdd == << 18, 3 >>

\* 0x200 60FF   V0 = 255
\* 0x202 6181   V1 = 129
\* 0x204 8014   V0 += V1
\* 0x206 810E   V1 = V0 << 1
\* 0x208 8105   V1 -= V0
\* 0x20A A000   I = 0
\* 0x20C F265   V0, V1, V2 = the cells at I
\* 0x20E 120E   loop
RomRegs == << 96, 255, 97, 129, 128, 20, 129, 14, 129, 5, 160, 0, 242, 101, 18, 14 >>

\* 6010 E0A1: V0 = 16, skip if key V0 is up.
RomKeyIndex == << 96, 16, 224, 161 >>

\* 60FF AFFE F033 1206: V0 = 255, I = 0xFFE, the digits of V0 to the cells at I,
\* loop.
RomBcdEnd == << 96, 255, 175, 254, 240, 51, 18, 6 >>

\* One byte too many.
RomOversize == [i \in 1 .. (MaxRomLen + 1) |-> IF i = 1 THEN 96 ELSE 1]

Roms ==
  << RomKeyWait, RomJumpLow, RomReturn, RomJumpOffset, RomStack, RomRandom,
     RomFull, RomOversize, RomTimers, RomFontWrite, RomJumpOdd, RomRegs,
     RomKeyIndex, RomBcdEnd >>

\* ------------------------------------------------------------------------
\* The operations of Chip8CPU
\* ------------------------------------------------------------------------

\* Chip8Emulator after __init__: not running, the loop thread before its first
\* cycle() call, the Tk thread outside key_press.
EmuIdle ==
  /\ running = FALSE
  /\ frame = 0
  /\ loop_at = "cycle"
  /\ host = [at |-> "idle", k |-> 0]

Init ==
  /\ Holds(ResetState)
  /\ fault = FALSE
  /\ last = [op |-> "init", arg |-> 0, ok |-> TRUE]
  /\ calls = << >>
  /\ draw_before = BlankDisplay
  /\ ticked = << 0, 0 >>
  /\ EmuIdle

\* load_rom(Roms[r])
LoadRom(r) ==
  \E data \in {Roms[r]} :
     /\ IF RomTooLarge(data)
        THEN /\ UNCHANGED cpu
             /\ last' = [op |-> "load_rom", arg |-> r, ok |-> FALSE]
             /\ UNCHANGED << calls, draw_before, ticked >>
        ELSE /\ \E s \in {LoadedState(data)} : Install(s)
             /\ last' = [op |-> "load_rom", arg |-> r, ok |-> TRUE]
             /\ calls' = << >>
             /\ draw_before' = BlankDisplay
             /\ ticked' = << 0, 0 >>
     /\ UNCHANGED fault

\* Mutant of CycleBlocked: cycle() does not look at waiting_for_key.
CycleNeverBlocked(s) == FALSE

\* Mutant of CycleHalted: the guard lets PC = max_pc through.
CycleHaltedOffByOne(s) == s.PC > max_pc

\* The two early returns of cycle().
CycleBlocked(s) == s.waiting_for_key
CycleHalted(s) == s.PC >= max_pc

\* The calls not yet returned from, after opcode ran from s without raising.
CallsAfter(s, opcode, raised) ==
  IF raised THEN calls
  ELSE IF Op(opcode) = 2 THEN Append(calls, << s.PC, s.SP >>)
  ELSE IF opcode = 238 /\ calls # << >> THEN SubSeq(calls, 1, Len(calls) - 1)
  ELSE calls

\* The delay timer's last setting and the ticks since, after opcode ran from s.
TickedAfter(s, opcode, raised) ==
  IF ~raised /\ Op(opcode) = 15 /\ NN(opcode) = 21 THEN << s.V[X(opcode)], 0 >>
  ELSE ticked

\* cycle().  The set { ... } makes the successor one value, computed once.
Cycle ==
  /\ ~fault
  /\ \E cur \in {Cur} :
       IF CycleBlocked(cur) \/ CycleHalted(cur)
       THEN /\ UNCHANGED cpu
            /\ fault' = FALSE
            /\ last' = [op |-> "cycle", arg |-> 0, ok |-> FALSE]
            /\ UNCHANGED << calls, draw_before, ticked >>
       ELSE \E opcode \in {Fetch(cur)} :
              \E rnd \in (IF Op(opcode) = 12 THEN RandBytes ELSE {0}) :
                \E s \in {Execute(cur, opcode, rnd)} :
                  /\ Install(s)
                  /\ fault' = s.fault
                  /\ last' = [op |-> "cycle", arg |-> opcode, ok |-> TRUE]
                  /\ calls' = CallsAfter(cur, opcode, s.fault)
                  /\ draw_before' = IF Op(opcode) = 13 THEN display ELSE draw_before
                  /\ ticked' = TickedAfter(cur, opcode, s.fault)

\* Mutant of TimersAfter: the delay timer is decremented without the test
\* for zero.
TimersAfterNoTest(s) ==
  LET s1 == [s EXCEPT !.delay_timer = s.delay_timer - 1]
  IN IF s1.sound_timer > 0
     THEN [s1 EXCEPT !.sound_timer = s1.sound_timer - 1, !.sound_flag = TRUE]
     ELSE [s1 EXCEPT !.sound_flag = FALSE]

\* update_timers()
TimersAfter(s) ==
  LET s1 == IF s.delay_timer > 0 THEN [s EXCEPT !.delay_timer = s.delay_timer - 1] ELSE s
  IN IF s1.sound_timer > 0
     THEN [s1 EXCEPT !.sound_timer = s1.sound_timer - 1, !.sound_flag = TRUE]
     ELSE [s1 EXCEPT !.sound_flag = FALSE]

UpdateTimers ==
  /\ ~fault
  /\ \E s \in {TimersAfter(Cur)} : Install(s)
  /\ fault' = FALSE
  /\ last' = [op |-> "update_timers", arg |-> 0, ok |-> TRUE]
  /\ ticked' = << ticked[1], Min(ticked[2] + 1, ticked[1]) >>
  /\ UNCHANGED << calls, draw_before >>

\* key_press(k)
KeyPressed(s, k) ==
  LET s1 == [s EXCEPT !.keys[k] = 1]
  IN IF s1.waiting_for_key
     THEN [s1 EXCEPT !.V[s1.key_register] = k, !.waiting_for_key = FALSE]
     ELSE s1

KeyPress(k) ==
  /\ \E s \in {KeyPressed(Cur, k)} : Install(s)
  /\ UNCHANGED fault
  /\ last' = [op |-> "key_press", arg |-> k, ok |-> waiting_for_key]
  /\ UNCHANGED << calls, draw_before, ticked >>

\* key_release(k)
KeyReleased(s, k) == [s EXCEPT !.keys[k] = 0]

KeyRelease(k) ==
  /\ \E s \in {KeyReleased(Cur, k)} : Install(s)
  /\ UNCHANGED fault
  /\ last' = [op |-> "key_release", arg |-> k, ok |-> TRUE]
  /\ UNCHANGED << calls, draw_before, ticked >>

\* The operations of Chip8CPU called one after the other in any order, as a
\* client of the class can; Chip8Emulator plays no part.
Next ==
  \/ (\E r \in 1 .. Len(Roms) : LoadRom(r)) /\ UNCHANGED emu
  \/ Cycle /\ UNCHANGED emu
  \/ UpdateTimers /\ UNCHANGED emu
  \/ (\E k \in HostKeys : KeyPress(k)) /\ UNCHANGED emu
  \/ (\E k \in HostKeys : KeyRelease(k)) /\ UNCHANGED emu

Spec == Init /\ [][Next]_vars

\* ------------------------------------------------------------------------
\* Claims checked under Spec
\* ------------------------------------------------------------------------

IsFX0A(opcode) == Op(opcode) = 15 /\ NN(opcode) = 10

C2_OversizeRejected ==
  [][ (last'.op = "load_rom" /\ Len(Roms[last'.arg]) > 3584)
        => (~last'.ok /\ UNCHANGED cpu) ]_vars

\* An oversize load refused in a state that is not the reset state.
C2_Witness ==
  /\ last.op = "load_rom" /\ ~last.ok
  /\ Len(Roms[last.arg]) > 3584
  /\ SP = -1 /\ PC # StartPC /\ V[1] = 1 /\ keys[0] = 1

\* C3: load_rom of at most 3584 bytes succeeds from any state and leaves
\* PC = 0x200, SP = 0, both timers 0, the framebuffer off, no key-wait, the
\* font in cells 0..79, the ROM from cell 0x200 on and every other cell 0.
C3_LoadSucceeds ==
  (last.op = "load_rom" /\ Len(Roms[last.arg]) <= 3584) =>
    /\ last.ok
    /\ PC = 512 /\ SP = 0 /\ delay_timer = 0 /\ sound_timer = 0
    /\ \A r \in 0 .. 31 : \A c \in 0 .. 63 : display[r][c] = 0
    /\ ~waiting_for_key
    /\ Len(memory) = 4096
    /\ \A a \in 0 .. 4095 :
         memory[a + 1] =
           IF a < 80 THEN FONTSET[a + 1]
           ELSE IF a >= 512 /\ a - 512 < Len(Roms[last.arg])
           THEN Roms[last.arg][a - 512 + 1]
           ELSE 0

\* The ROM of exactly 3584 bytes is loaded, its last byte in cell 4095.
C3_Witness ==
  /\ last.op = "load_rom" /\ last.ok
  /\ Len(Roms[last.arg]) = 3584
  /\ memory[4096] = 7

\* C4: the program counter is always within [0x200, max_pc].
C4_PCInRange == PC >= 512 /\ PC <= 4094

\* C5: the stack pointer is always in 0..15.
C5_SPInRange == SP >= 0 /\ SP <= 15

\* C10: a return that pairs with a call made at address A with stack pointer p
\* (the calls in between having returned) sets PC = A + 2 and SP = p.
C10_CallReturn ==
  [][ (last'.op = "cycle" /\ last'.ok /\ last'.arg = 238 /\ ~fault' /\ calls # << >>)
        => /\ PC' = calls[Len(calls)][1] + 2
           /\ SP' = calls[Len(calls)][2] ]_vars

\* ------------------------------------------------------------------------
\* SpecALU: the register-to-register instructions 8XY4, 8XY5 and 8XY7, for
\* every pair of operand registers and sampled operand values.  The machine
\* starts with a three-instruction ROM loaded and runs it.
\* ------------------------------------------------------------------------

\* Operand values.
ByteSamples == {0, 1, 128, 255}

\* 6xaa 6ybb 8xyn: Vx = a, Vy = b, then the operation n on Vx and Vy.
RomALU(x, y, a, b, n) == << 96 + x, a, 96 + y, b, 128 + x, 16 * y + n >>

InitALU ==
  \E x \in Regs, y \in Regs, a \in ByteSamples, b \in ByteSamples, n \in {4, 5, 7} :
    /\ Holds(LoadedState(RomALU(x, y, a, b, n)))
    /\ fault = FALSE
    /\ last = [op |-> "load_rom", arg |-> 0, ok |-> TRUE]
    /\ calls = << >>
    /\ draw_before = BlankDisplay
    /\ ticked = << 0, 0 >>
    /\ EmuIdle

NextALU == Cycle /\ UNCHANGED emu

SpecALU == InitALU /\ [][NextALU]_vars

Is8XYN(opcode, n) == Op(opcode) = 8 /\ N(opcode) = n

\* C6: after 8XY5, VF = 1 iff Vx >= Vy (the values before) and Vx is their
\* difference Vx - Vy mod 256; after 8XY7, VF = 1 iff Vy >= Vx and Vx is
\* Vy - Vx mod 256; for every x and y.
C6_SubtractBorrow ==
  [][ /\ (last'.op = "cycle" /\ last'.ok /\ Is8XYN(last'.arg, 5)) =>
           LET x == X(last'.arg)
               y == Y(last'.arg)
           IN /\ V'[15] = (IF V[x] >= V[y] THEN 1 ELSE 0)
              /\ V'[x] = (V[x] - V[y]) % 256
      /\ (last'.op = "cycle" /\ last'.ok /\ Is8XYN(last'.arg, 7)) =>
           LET x == X(last'.arg)
               y == Y(last'.arg)
           IN /\ V'[15] = (IF V[y] >= V[x] THEN 1 ELSE 0)
              /\ V'[x] = (V[y] - V[x]) % 256
    ]_vars

\* C7: after 8XY4, VF = 1 if the sum of Vx and Vy (the values before) exceeds
\* 255 and VF = 0 otherwise, for every x and y.
C7_AddCarry ==
  [][ (last'.op = "cycle" /\ last'.ok /\ Is8XYN(last'.arg, 4)) =>
        LET x == X(last'.arg)
            y == Y(last'.arg)
        IN V'[15] = (IF V[x] + V[y] > 255 THEN 1 ELSE 0) ]_vars

\* 8FE4 has run with VF = 255 and VE = 1: the sum 256 carries, and VF, which
\* is also the destination, holds the carry.
C7_Witness ==
  /\ last = [op |-> "cycle", arg |-> 36836, ok |-> TRUE]
  /\ Mem(Cur, 513) = 255 /\ Mem(Cur, 515) = 1
  /\ V[15] = 1 /\ V[14] = 1

\* ------------------------------------------------------------------------
\* SpecDraw: DXYN run twice in succession on a framebuffer that already shows
\* a sprite, for every pair of coordinate registers.
\* ------------------------------------------------------------------------

\* 0x200 A214   I = 0x214
\* 0x202 DAB2   draw the two rows at 0x214 at (VA, VB) = (0, 0)
\* 0x204 6xaa   Vx = a
\* 0x206 6ybb   Vy = b
\* 0x208 A216   I = 0x216
\* 0x20A DXYN   draw n rows at (Vx, Vy)
\* 0x20C DXYN   and again
\* 0x20E 120E   loop
\* 0x214 FF 0F  the rows of the first sprite
\* 0x216 C3 FF  the rows of the second
RomDraw(x, y, a, b, n) ==
  << 162, 20, 218, 178, 96 + x, a, 96 + y, b, 162, 22,
     208 + x, 16 * y + n, 208 + x, 16 * y + n, 18, 14,
     0, 0, 0, 0, 255, 15, 195, 255 >>

\* Coordinates: at the origin (over the first sprite) and wrapping both edges.
ColSamples == {0, 3, 62}
RowSamples == {0, 31}
HeightSamples == {1, 2}

InitDraw ==
  \E x \in Regs, y \in Regs, a \in ColSamples, b \in RowSamples, n \in HeightSamples :
    /\ Holds(LoadedState(RomDraw(x, y, a, b, n)))
    /\ fault = FALSE
    /\ last = [op |-> "load_rom", arg |-> 0, ok |-> TRUE]
    /\ calls = << >>
    /\ draw_before = BlankDisplay
    /\ ticked = << 0, 0 >>
    /\ EmuIdle

NextDraw == Cycle /\ UNCHANGED emu

SpecDraw == InitDraw /\ [][NextDraw]_vars

IsDXYN(opcode) == Op(opcode) = 13

\* C8: the same DXYN executed twice in succession (I and the sprite bytes are
\* the same for both, no instruction running in between) leaves the
\* framebuffer as it was before the first of the two.
C8_DrawTwiceRestores ==
  [][ ( /\ last.op = "cycle" /\ last.ok /\ IsDXYN(last.arg) /\ ~fault
        /\ last'.op = "cycle" /\ last'.ok /\ last'.arg = last.arg /\ ~fault' )
        => display' = draw_before ]_vars

\* The pixels DXYN is to toggle: bit col of sprite row `row` at column
\* (vx + col) mod 64 and row (vy + row) mod 32.
SpritePixels(mem, i, vx, vy, n) ==
  { << (vy + row) % 32, (vx + col) % 64 >> :
      << row, col >> \in { rc \in (0 .. (n - 1)) \X (0 .. 7) :
                            Bit(mem[i + rc[1] + 1], 7 - rc[2]) = 1 } }

\* C9: after DXYN the framebuffer is the one before with exactly the sprite's
\* pixels toggled, placed by the values Vx and Vy had when the instruction
\* started, and VF = 1 iff a pixel went from on to off, VF = 0 otherwise.
C9_DrawCollision ==
  [][ (last'.op = "cycle" /\ last'.ok /\ IsDXYN(last'.arg) /\ ~fault') =>
        \A px \in {SpritePixels(memory, I, V[X(last'.arg)], V[Y(last'.arg)], N(last'.arg))} :
           /\ \A r \in 0 .. 31 : \A c \in 0 .. 63 :
                display'[r][c] = IF << r, c >> \in px THEN 1 - display[r][c]
                                 ELSE display[r][c]
           /\ V'[15] = (IF \E r \in 0 .. 31 : \E c \in 0 .. 63 :
                              display[r][c] = 1 /\ display'[r][c] = 0
                        THEN 1 ELSE 0) ]_vars

\* ------------------------------------------------------------------------
\* The timer tick, checked under Spec
\* ------------------------------------------------------------------------

\* C11: each update_timers() takes exactly 1 from the delay timer and from the
\* sound timer when the timer is not 0 and leaves a timer that is 0 at 0; no
\* timer is ever below 0; and a delay timer set to d by FX15 reads d less the
\* ticks made since while these are fewer than d, and 0 from the d-th tick on.
C11_TimerTick ==
  /\ [](delay_timer >= 0 /\ sound_timer >= 0)
  /\ [](delay_timer = ticked[1] - ticked[2])
  /\ [][ last'.op = "update_timers" =>
          /\ delay_timer' = (IF delay_timer # 0 THEN delay_timer - 1 ELSE 0)
          /\ sound_timer' = (IF sound_timer # 0 THEN sound_timer - 1 ELSE 0)
      ]_vars

\* RomTimers: the delay timer was set to 3, three ticks brought it to 0 and a
\* fourth left it there.
C11_Witness ==
  /\ ticked = << 3, 3 >>
  /\ last.op = "update_timers"
  /\ delay_timer = 0 /\ sound_timer = 0
  /\ V[2] = 0 /\ PC = 522

\* C12: after each update_timers() the sound flag is set if and only if the
\* sound timer is not 0 after the decrement.
C12_SoundFlag ==
  [][ last'.op = "update_timers" => (sound_flag' <=> sound_timer' # 0) ]_vars

\* ------------------------------------------------------------------------
\* The halt guard, checked under Spec
\* ------------------------------------------------------------------------

\* C13: a cycle() called with PC >= 4094 changes no field of the machine and
\* raises nothing; a cycle() that fetches reads memory[PC] and memory[PC + 1]
\* inside the memory; and a machine with PC >= 4094 still has PC >= 4094 after
\* every cycle(), update_timers(), key_press() and key_release().
C13_HaltGuard ==
  [][ /\ (PC >= 4094 /\ last'.op = "cycle") => (UNCHANGED cpu /\ ~fault')
      /\ (last'.op = "cycle" /\ last'.ok) => (PC >= 0 /\ PC + 1 < Len(memory))
      /\ (PC >= 4094 /\ last'.op \in {"cycle", "update_timers", "key_press", "key_release"})
           => PC' >= 4094
    ]_vars

\* RomFull: the key-wait at 0xFFC has ended, PC = 0xFFE where 6007 lies, and
\* cycle() has returned without running it.
C13_Witness ==
  /\ PC = 4094 /\ Mem(Cur, 4094) = 96
  /\ ~waiting_for_key
  /\ last = [op |-> "cycle", arg |-> 0, ok |-> FALSE]
  /\ V[0] = 0

\* ------------------------------------------------------------------------
\* Invariants of the machine state, checked under Spec
\* ------------------------------------------------------------------------

\* C14: the cells 0x000..0x04F always hold the font reset() put there.
C14_FontIntact == \A a \in 0 .. 79 : memory[a + 1] = FONTSET[a + 1]

\* C15: the program counter is always even.
C15_PCEven == PC % 2 = 0

\* C16: every register V0..VF always holds an integer in 0..255.
C16_RegistersAreBytes == \A r \in 0 .. 15 : V[r] \in 0 .. 255

\* RomRegs: 810E has shifted V0 = 128 left into V1: the result 256 is cut to
\* 0 and VF holds the bit shifted out; V0 is the sum 255 + 129 cut to 128.
C16_Witness ==
  /\ last = [op |-> "cycle", arg |-> 33038, ok |-> TRUE]
  /\ V[0] = 128 /\ V[1] = 0 /\ V[15] = 1

\* C18: no cycle() raises: no instruction indexes memory, the stack or the
\* keypad outside the list.
C18_NoFault == ~fault

\* C20: memory always has exactly 4096 cells, each an integer in 0..255.
C20_MemoryShape ==
  /\ Len(memory) = 4096
  /\ \A a \in 1 .. Len(memory) : memory[a] \in 0 .. 255

\* ------------------------------------------------------------------------
\* Chip8Emulator.  The thread of loop() calls cycle() and update_timers();
\* the Tk thread calls run(), key_press() and key_release().
\*
\* SpecLoop takes every call of the two threads as one step and gives the
\* loop thread its fairness.  SpecRace splits the two calls that share
\* waiting_for_key and key_register, execute() of FX0A and key_press(), into
\* their statements: no lock is taken anywhere, so the threads interleave
\* between any two of them.
\* ------------------------------------------------------------------------

\* 6003 F015 F10A 1200: V0 = 3, delay timer = V0, wait for a key into V1,
\* start again.
RomDelayWait == << 96, 3, 240, 21, 241, 10, 18, 0 >>

\* 6003 F015 1FFE: V0 = 3, delay timer = V0, jump to 0xFFE = max_pc.
RomDelayHalt == << 96, 3, 240, 21, 31, 254 >>

\* 6003 F015 6010 E0A1: V0 = 3, delay timer = V0, V0 = 16, skip if key V0 is
\* up.
RomDelayFault == << 96, 3, 240, 21, 96, 16, 224, 161 >>

LoopRoms == << RomDelayWait, RomDelayHalt, RomDelayFault >>

\* A ROM was loaded before run() is called.
InitLoop ==
  \E r \in 1 .. Len(LoopRoms) :
    /\ Holds(LoadedState(LoopRoms[r]))
    /\ fault = FALSE
    /\ last = [op |-> "load_rom", arg |-> r, ok |-> TRUE]
    /\ calls = << >>
    /\ draw_before = BlankDisplay
    /\ ticked = << 0, 0 >>
    /\ EmuIdle

\* run(): self.running = True
Run ==
  /\ ~running
  /\ running' = TRUE
  /\ UNCHANGED << cpu, hist, frame, loop_at, host >>

\* for _ in range(self.cycles_per_frame), after n calls: another call follows.
MoreCycles(n) == n < cycles_per_frame

\* The next cycle() call of the loop thread will execute an FX0A.
AtFX0A == ~CycleBlocked(Cur) /\ ~CycleHalted(Cur) /\ IsFX0A(Fetch(Cur))

\* One cycle() call of the for loop.  An IndexError leaves the for loop and
\* loop(), which has no handler: the thread ends (fault).
LoopCycle ==
  /\ running /\ loop_at = "cycle" /\ MoreCycles(frame)
  /\ Cycle
  /\ frame' = IF fault' THEN frame ELSE frame + 1
  /\ UNCHANGED << running, loop_at, host >>

\* cycle() on FX0A, first statement: self.waiting_for_key = True
LoopFX0AWait ==
  /\ running /\ ~fault /\ loop_at = "cycle" /\ MoreCycles(frame)
  /\ AtFX0A
  /\ waiting_for_key' = TRUE
  /\ loop_at' = "key_register"
  /\ last' = [op |-> "cycle", arg |-> Fetch(Cur), ok |-> TRUE]
  /\ UNCHANGED << memory, V, I, PC, SP, stack, delay_timer, sound_timer, display,
                  keys, draw_flag, sound_flag, key_register >>
  /\ UNCHANGED << fault, calls, draw_before, ticked, running, frame, host >>

\* second statement: self.key_register = x, x decoded from the opcode at PC
LoopFX0ARegister ==
  /\ loop_at = "key_register"
  /\ key_register' = X(Fetch(Cur))
  /\ loop_at' = "PC"
  /\ UNCHANGED << memory, V, I, PC, SP, stack, delay_timer, sound_timer, display,
                  keys, draw_flag, sound_flag, waiting_for_key >>
  /\ UNCHANGED << hist, running, frame, host >>

\* last statement: self.PC += 2, and the call returns
LoopFX0APC ==
  /\ loop_at = "PC"
  /\ PC' = PC + 2
  /\ loop_at' = "cycle"
  /\ frame' = frame + 1
  /\ UNCHANGED << memory, V, I, SP, stack, delay_timer, sound_timer, display,
                  keys, draw_flag, sound_flag, waiting_for_key, key_register >>
  /\ UNCHANGED << hist, running, host >>

\* After the for loop: self.cpu.update_timers()
LoopTick ==
  /\ running /\ loop_at = "cycle" /\ ~MoreCycles(frame)
  /\ UpdateTimers
  /\ loop_at' = "draw"
  /\ UNCHANGED << running, frame, host >>

\* The rest of the iteration: the redraw is scheduled and draw_flag cleared,
\* the bell is scheduled (sound_pending is set and cleared), then the sleep.
LoopFrameEnd ==
  /\ loop_at = "draw"
  /\ draw_flag' = FALSE
  /\ loop_at' = "cycle"
  /\ frame' = 0
  /\ UNCHANGED << memory, V, I, PC, SP, stack, delay_timer, sound_timer, display,
                  keys, sound_flag, waiting_for_key, key_register >>
  /\ UNCHANGED << hist, running, host >>

LoopThread ==
  \/ LoopCycle
  \/ LoopTick
  \/ LoopFrameEnd

\* The loop thread with FX0A statement by statement.
RaceLoopThread ==
  \/ ~AtFX0A /\ LoopCycle
  \/ LoopFX0AWait
  \/ LoopFX0ARegister
  \/ LoopFX0APC
  \/ LoopTick
  \/ LoopFrameEnd

\* on_key_press -> key_press(k), first statement: self.keys[k] = 1
HostKeyPress(k) ==
  /\ host.at = "idle"
  /\ keys' = [keys EXCEPT ![k] = 1]
  /\ host' = [at |-> "if", k |-> k]
  /\ last' = [op |-> "key_press", arg |-> k, ok |-> FALSE]
  /\ UNCHANGED << memory, V, I, PC, SP, stack, delay_timer, sound_timer, display,
                  draw_flag, sound_flag, waiting_for_key, key_register >>
  /\ UNCHANGED << fault, calls, draw_before, ticked, running, frame, loop_at >>

\* if self.waiting_for_key:
HostIf ==
  /\ host.at = "if"
  /\ host' = [host EXCEPT !.at = IF waiting_for_key THEN "store" ELSE "idle"]
  /\ last' = [op |-> "key_press", arg |-> host.k, ok |-> waiting_for_key]
  /\ UNCHANGED << cpu, fault, calls, draw_before, ticked, running, frame, loop_at >>

\* self.V[self.key_register] = k
HostStore ==
  /\ host.at = "store"
  /\ V' = [V EXCEPT ![key_register] = host.k]
  /\ host' = [host EXCEPT !.at = "clear"]
  /\ UNCHANGED << memory, I, PC, SP, stack, delay_timer, sound_timer, display,
                  keys, draw_flag, sound_flag, waiting_for_key, key_register >>
  /\ UNCHANGED << hist, running, frame, loop_at >>

\* self.waiting_for_key = False
HostClear ==
  /\ host.at = "clear"
  /\ waiting_for_key' = FALSE
  /\ host' = [host EXCEPT !.at = "idle"]
  /\ UNCHANGED << memory, V, I, PC, SP, stack, delay_timer, sound_timer, display,
                  keys, draw_flag, sound_flag, key_register >>
  /\ UNCHANGED << hist, running, frame, loop_at >>

\* on_key_release -> key_release(k)
HostKeyRelease(k) ==
  /\ host.at = "idle"
  /\ KeyRelease(k)
  /\ UNCHANGED emu

TkThread ==
  \/ Run
  \/ (\E k \in HostKeys : KeyPress(k)) /\ UNCHANGED emu
  \/ (\E k \in HostKeys : KeyRelease(k)) /\ UNCHANGED emu

\* The Tk thread with key_press statement by statement.
RaceTkThread ==
  \/ Run
  \/ \E k \in HostKeys : HostKeyPress(k)
  \/ HostIf
  \/ HostStore
  \/ HostClear
  \/ \E k \in HostKeys : HostKeyRelease(k)

NextLoop == LoopThread \/ TkThread

\* The loop thread is an operating-system thread that sleeps 1/60 s per
\* iteration and is never blocked by the Tk thread: it keeps taking steps.
SpecLoop == InitLoop /\ [][NextLoop]_vars /\ WF_vars(LoopThread)

NextRace == RaceLoopThread \/ RaceTkThread

SpecRace == InitLoop /\ [][NextRace]_vars

\* The FX0A a key_press that found waiting_for_key set is answering: the
\* instruction at PC while the loop thread is inside it, the one at PC - 2
\* once its last statement has run (cycle() returns early from then on).
WaitingOn ==
  Fetch([Cur EXCEPT !.PC = IF loop_at \in {"key_register", "PC"} THEN PC ELSE PC - 2])

\* C17: a key_press(k) that finds the machine waiting stores k in the register
\* x named by the FX0A that waits, and in no other, whatever the point at
\* which it interleaves with the loop thread; and it ends the wait.
C17_KeyPressNoRace ==
  [][ /\ (host.at = "store" /\ host'.at = "clear")
           => V' = [V EXCEPT ![X(WaitingOn)] = host.k]
      /\ (host.at = "clear" /\ host'.at = "idle") => ~waiting_for_key'
    ]_vars

\* The machine does not advance: it waits for a key or PC is at or past max_pc.
Stalled == waiting_for_key \/ PC >= 4094

\* The step is the update_timers() call of the loop thread.
TickStep == loop_at = "cycle" /\ loop_at' = "draw"

\* C19: while running, an iteration of loop() makes at most 10 cycle() calls,
\* then update_timers() once (each timer that is not 0 loses 1): the iteration
\* ends only after its tick, outside the tick only a completed cycle() call
\* changes a timer, and every iteration begun gets to its tick; and since the
\* tick is made in the iterations where the machine waits for a key or is
\* halted as well, a delay timer that is not 0 while the machine is stalled
\* reaches 0, unless a key ends the wait first.
C19_FrameTicks ==
  /\ [](frame <= 10)
  /\ [][ /\ TickStep =>
             /\ frame <= 10
             /\ delay_timer' = (IF delay_timer # 0 THEN delay_timer - 1 ELSE 0)
             /\ sound_timer' = (IF sound_timer # 0 THEN sound_timer - 1 ELSE 0)
         /\ (~TickStep /\ frame' # frame + 1) =>
             (delay_timer' = delay_timer /\ sound_timer' = sound_timer)
         /\ (frame # 0 /\ frame' = 0) => (loop_at = "draw" /\ loop_at' = "cycle")
         /\ (loop_at = "draw" /\ loop_at' # "draw") => (loop_at' = "cycle" /\ frame' = 0)
     ]_vars
  /\ (running /\ loop_at = "cycle") ~> (loop_at = "draw")
  /\ (running /\ Stalled /\ delay_timer > 0) ~> (delay_timer = 0 \/ ~Stalled)

====
